---- MODULE Spec2Model ----
(***************************************************************************)
(* Verification model of the sinain-hud sensing pipeline.                  *)
(*                                                                         *)
(* Part 1: the decision gate (src/sense_client/gate.py).                   *)
(* Part 2: the ROI extractor (src/sense_client/roi_extractor.py).          *)
(* Part 3: the sampling tick and its OCR fan-out (specification, sect. 5). *)
(* Part 4: the capture backends (src/sense_client/capture.py).             *)
(* Part 5: the OCR wrappers (src/sense_client/ocr.py and                   *)
(*         src/sinain-wearable-hud/sinain_wearable_hud/ocr.py).            *)
(* Part 6: the event sender (specification, sect. 4; its tests in          *)
(*         src/sense_client/tests/test_stream1_optimizations.py).          *)
(* Part 7: the change detector (specification, sect. 4.1).                 *)
(* Part 8: the foreground-app detector (src/sense_client/app_detector.py). *)
(*                                                                         *)
(* Conventions                                                             *)
(*   - Python None is the record None below, so that `x = None` and        *)
(*     `x.type` are defined for every value a variable may hold.           *)
(*   - Times are epoch milliseconds, as time.time() * 1000 in the code.    *)
(*     The wall clock of the model starts at Epoch.                        *)
(*   - SSIM scores are floats in [0,1] in the code; the model keeps them   *)
(*     as integer hundredths (0.85 is 85), which preserves every           *)
(*     comparison the gate makes.                                          *)
(***************************************************************************)
EXTENDS Integers, Sequences, FiniteSets, TLC

VARIABLES
    gate,        \* the DecisionGate instance: a record of its attributes
    clock,       \* the wall clock, time.time() * 1000, at the latest call
    call,        \* arguments of the latest classify call (None before any)
    ret,         \* return value of the latest classify call (None = drop)
    prev_event,  \* latest SenseEvent returned before the latest call
    prev_text,   \* latest "text" SenseEvent returned before the latest call
    \* -- ROIExtractor (roi_extractor.py)
    roi_self,    \* the ROIExtractor instance: padding, min_size, max_rois
    roi_frame,   \* frame.size of the frame passed to extract: <<w, h>>
    roi_contours,\* the contours passed to extract: sequences of <<y, x>>
    roi_ret,     \* extract's local `merged` and the list it returned
                 \* (None before the call)
    \* -- the sampling tick (pipeline of section 5 of the specification)
    tick,        \* number of the tick, its step, its ROI count, steps done
    tick_ocr,    \* the tick's OCR calls: status and result per ROI, the
                 \* order they completed in, the result chosen for the gate
    \* -- a capture backend and the capture_loop generator running on it
    cap,         \* the backend object, the generator's position, what it
                 \* yielded last
    \* -- one OCR call
    ocr_call,    \* the OCR object, the call's input, what it returned
    \* -- the event sender
    sender,      \* the sender object, the clock, its last call and the
                 \* reports it has logged
    \* -- the change detector
    det,         \* the detector object, its last call and what it returned
    \* -- the foreground-app detector
    app          \* the detector object, its last call and what it returned

vars == <<gate, clock, call, ret, prev_event, prev_text>>

roi_vars == <<roi_self, roi_frame, roi_contours, roi_ret>>

tick_vars == <<tick, tick_ocr>>

all_vars == <<vars, roi_vars, tick_vars, cap, ocr_call, sender, det, app>>

None == [type |-> "None"]

(***************************************************************************)
(* Bounds and input domains                                                *)
(***************************************************************************)

\* Wall-clock value when the gate is constructed.  Real epoch milliseconds
\* are far larger than any cooldown, so the first call is never inside a
\* cooldown window measured from last_send_ts = 0.
Epoch == 10000

\* The model follows the gate for this many milliseconds after Epoch.
MaxElapsed == 7000

\* Time that may pass between two classify calls.
Steps == {0, 1999, 2000, 3000}

\* OCR texts: empty, non-empty below 10 chars, exactly 10 chars, above.
Texts == {"", "short", "0123456789", "hello world!"}

\* SSIM scores (hundredths): major change, exactly the threshold, identical.
SsimScores == {50, 85, 100}

\* Constructor arguments tried.
MinOcrCharsChoices == {0, 10}
CooldownMsChoices == {2000, 5000}

\* major_change_threshold default 0.85, in hundredths.
major_change_threshold_default == 85

(***************************************************************************)
(* Data types                                                              *)
(***************************************************************************)

\* ChangeResult: only ssim_score is read by the gate.
ChangeResult(ssim_score) == [ssim_score |-> ssim_score]

ChangeResults == {ChangeResult(s) : s \in SsimScores}

\* OCRResult: only text is read by the gate.
OCRResult(text) == [text |-> text]

OCRResults == {OCRResult(t) : t \in Texts}

\* SenseMeta(ssim=0.0, app="", screen=0)
SenseMeta(ssim) == [ssim |-> ssim, app |-> "", screen |-> 0]

\* SenseEvent(type, ts=0.0, ocr="", roi=None, diff=None, meta=SenseMeta())
SenseEvent(type, ts, ocr, meta) ==
    [type |-> type, ts |-> ts, ocr |-> ocr, roi |-> None, diff |-> None,
     meta |-> meta]

\* hashlib.md5(text.encode()).hexdigest(), tabulated on Texts.
md5_hexdigest(text) ==
    CASE text = ""             -> "d41d8cd98f00b204e9800998ecf8427e"
      [] text = "short"        -> "4f09daa9d95bcb166a302407a0e0babe"
      [] text = "0123456789"   -> "781e5e245d69b566979b86e28d23f2c7"
      [] text = "hello world!" -> "fc3ff98e8c6a0d3087d515c0473f8677"

(***************************************************************************)
(* DecisionGate                                                            *)
(***************************************************************************)

\* DecisionGate.__init__
DecisionGate(min_ocr_chars, major_change_threshold, cooldown_ms) ==
    [min_ocr_chars |-> min_ocr_chars,
     major_change_threshold |-> major_change_threshold,
     cooldown_ms |-> cooldown_ms,
     last_send_ts |-> 0,
     last_ocr_hash |-> ""]

\* `return None` with the gate untouched.
Drop(self) == [self |-> self, ret |-> None]

\* Mutant of InCooldown: the cooldown taken in seconds against a clock in ms.
InCooldown_Seconds(self, now) ==
    now - self.last_send_ts < self.cooldown_ms \div 1000

\* if now - self.last_send_ts < self.cooldown_ms
InCooldown(self, now) == now - self.last_send_ts < self.cooldown_ms

\* Mutant of TextSufficient: strict comparison with min_ocr_chars.
TextSufficient_Strict(self, ocr) ==
    ocr.text # "" /\ Len(ocr.text) > self.min_ocr_chars

\* if ocr.text and len(ocr.text) >= self.min_ocr_chars
TextSufficient(self, ocr) ==
    ocr.text # "" /\ Len(ocr.text) >= self.min_ocr_chars

\* Mutant of IsDuplicate: the digest compared with the initial value of
\* last_ocr_hash instead of the stored one.
IsDuplicate_Initial(self, text_hash) == text_hash = ""

\* if text_hash == self.last_ocr_hash
IsDuplicate(self, text_hash) == text_hash = self.last_ocr_hash

\* Mutant of MajorChange: a score equal to the threshold counts as major.
MajorChange_Inclusive(self, change) ==
    change.ssim_score <= self.major_change_threshold

\* if change.ssim_score < self.major_change_threshold
MajorChange(self, change) == change.ssim_score < self.major_change_threshold

\* Mutant of EmitContext: the context event leaves last_send_ts alone.
EmitContext_NoTimestamp(self, now) ==
    [self |-> self,
     ret  |-> SenseEvent("context", now, "", SenseMeta(0))]

\* App switch -> context event
EmitContext(self, now) ==
    [self |-> [self EXCEPT !.last_send_ts = now],
     ret  |-> SenseEvent("context", now, "", SenseMeta(0))]

\* Mutant of EmitText: the fingerprint of the emitted text is not recorded.
EmitText_NoHash(self, now, change, ocr, text_hash) ==
    [self |-> [self EXCEPT !.last_send_ts = now],
     ret  |-> SenseEvent("text", now, ocr.text, SenseMeta(change.ssim_score))]

\* OCR text sufficient and new -> text event
EmitText(self, now, change, ocr, text_hash) ==
    [self |-> [self EXCEPT !.last_ocr_hash = text_hash, !.last_send_ts = now],
     ret  |-> SenseEvent("text", now, ocr.text, SenseMeta(change.ssim_score))]

\* Mutant of EmitVisual: the visual event does not restart the cooldown.
EmitVisual_NoTimestamp(self, now, change, ocr) ==
    [self |-> self,
     ret  |-> SenseEvent("visual", now, ocr.text, SenseMeta(change.ssim_score))]

\* Major visual change -> visual event
EmitVisual(self, now, change, ocr) ==
    [self |-> [self EXCEPT !.last_send_ts = now],
     ret  |-> SenseEvent("visual", now, ocr.text, SenseMeta(change.ssim_score))]

\* Mutant of classify: a duplicate text falls through to the visual branch.
classify_VisualAfterDuplicate(self, now, change, ocr, app_changed) ==
    IF InCooldown(self, now) THEN Drop(self)
    ELSE IF app_changed THEN EmitContext(self, now)
    ELSE IF change = None THEN Drop(self)
    ELSE IF TextSufficient(self, ocr)
            /\ ~IsDuplicate(self, md5_hexdigest(ocr.text))
         THEN EmitText(self, now, change, ocr, md5_hexdigest(ocr.text))
    ELSE IF MajorChange(self, change) THEN EmitVisual(self, now, change, ocr)
    ELSE Drop(self)

\* Mutant of classify: the text fingerprint is recorded before the baseline
\* check, so a tick without a change result consumes the text.
classify_HashBeforeBaseline(self, now, change, ocr, app_changed) ==
    IF InCooldown(self, now) THEN Drop(self)
    ELSE IF app_changed THEN EmitContext(self, now)
    ELSE IF TextSufficient(self, ocr) THEN
        LET text_hash == md5_hexdigest(ocr.text) IN
        IF IsDuplicate(self, text_hash) THEN Drop(self)
        ELSE IF change = None
             THEN Drop([self EXCEPT !.last_ocr_hash = text_hash])
             ELSE EmitText(self, now, change, ocr, text_hash)
    ELSE IF change = None THEN Drop(self)
    ELSE IF MajorChange(self, change) THEN EmitVisual(self, now, change, ocr)
    ELSE Drop(self)

\* DecisionGate.classify, with `now` the value time.time() * 1000 returns.
\* The result pairs the gate after the call with the value returned.
classify(self, now, change, ocr, app_changed) ==
    IF InCooldown(self, now) THEN Drop(self)
    ELSE IF app_changed THEN EmitContext(self, now)
    ELSE IF change = None THEN Drop(self)
    ELSE IF TextSufficient(self, ocr) THEN
        LET text_hash == md5_hexdigest(ocr.text) IN
        IF IsDuplicate(self, text_hash) THEN Drop(self)
        ELSE EmitText(self, now, change, ocr, text_hash)
    ELSE IF MajorChange(self, change) THEN EmitVisual(self, now, change, ocr)
    ELSE Drop(self)

(***************************************************************************)
(* ROIExtractor                                                            *)
(*                                                                         *)
(* A box is <<x1, y1, x2, y2>>; a contour is a sequence of <<y, x>>        *)
(* coordinates (row, column), as the arrays the change detector produces.  *)
(***************************************************************************)

\* Largest number of contours passed to extract.
MaxContours == 3

\* Frame sizes <<w, h>>, and constructor arguments tried.  The code's
\* defaults (padding 20, min_size (64, 64), max_rois 3) are scaled down with
\* the frame.
FrameSizes == {<<8, 8>>}
PaddingChoices == {2}
MinSizeChoices == {<<3, 3>>, <<5, 5>>}
MaxRoisChoices == {1, 2}

\* Extents <<lo, hi>> of a contour along one axis: at the frame's origin,
\* one padding away from it, further away, and on the far edge and beyond.
XExtents == {<<0, 2>>, <<4, 4>>, <<5, 6>>, <<7, 9>>}
YExtents == {<<0, 2>>, <<4, 4>>, <<5, 6>>}

\* A contour with the given extents: two opposite corners, <<y, x>> each.
Contour(xe, ye) == << <<ye[1], xe[2]>>, <<ye[2], xe[1]>> >>

Contours == {Contour(xe, ye) : xe \in XExtents, ye \in YExtents}

ContourLists == UNION {[1..n -> Contours] : n \in 0..MaxContours}

SetMin(S) == CHOOSE m \in S : \A v \in S : m <= v

SetMax(S) == CHOOSE m \in S : \A v \in S : m >= v

\* sorted(seq, key=...): stable, ascending in keys[i], the key of seq[i].
StableSort(seq, keys) ==
    LET n == Len(seq)
        Rank(i) == Cardinality({j \in 1..n :
                       keys[j] < keys[i] \/ (keys[j] = keys[i] /\ j < i)}) + 1
    IN  [p \in 1..n |-> seq[CHOOSE i \in 1..n : Rank(i) = p]]

\* ROIExtractor.__init__
ROIExtractor(padding, min_size, max_rois) ==
    [padding |-> padding, min_size |-> min_size, max_rois |-> max_rois]

\* arr.min(axis=0), arr.max(axis=0) -> (min_x, min_y, max_x, max_y)
BoundingBox(coords) ==
    LET ys == {coords[i][1] : i \in DOMAIN coords}
        xs == {coords[i][2] : i \in DOMAIN coords}
    IN  <<SetMin(xs), SetMin(ys), SetMax(xs), SetMax(ys)>>

\* Mutant of MergesInto: a horizontal gap of exactly `padding` does not merge.
MergesInto_StrictGap(self, last, b) ==
    /\ b[1] < last[3] + self.padding
    /\ b[2] <= last[4] + self.padding
    /\ b[4] >= last[2] - self.padding

\* The merge test of the sweep: `b` against the last accumulated box.
MergesInto(self, last, b) ==
    /\ b[1] <= last[3] + self.padding
    /\ b[2] <= last[4] + self.padding
    /\ b[4] >= last[2] - self.padding

\* Mutant of MergeBox: the accumulated box is replaced by the new one.
MergeBox_Replace(last, b) == b

\* The element-wise min/max of two boxes.
MergeBox(last, b) ==
    <<IF last[1] <= b[1] THEN last[1] ELSE b[1],
      IF last[2] <= b[2] THEN last[2] ELSE b[2],
      IF last[3] >= b[3] THEN last[3] ELSE b[3],
      IF last[4] >= b[4] THEN last[4] ELSE b[4]>>

\* (b[2] - b[0]) * (b[3] - b[1])
BoxArea(b) == (b[3] - b[1]) * (b[4] - b[2])

\* Mutant of Sweep: a box is merged into the first accumulated box that
\* passes the test, not only into the last one.
RECURSIVE Sweep_AnyAccumulated(_, _, _)
Sweep_AnyAccumulated(self, merged, rest) ==
    IF rest = <<>> THEN merged
    ELSE LET b    == Head(rest)
             hits == {i \in DOMAIN merged : MergesInto(self, merged[i], b)}
         IN  IF hits # {}
             THEN Sweep_AnyAccumulated(
                      self,
                      [merged EXCEPT ![SetMin(hits)] = MergeBox(@, b)],
                      Tail(rest))
             ELSE Sweep_AnyAccumulated(self, Append(merged, b), Tail(rest))

\* The loop of _merge_boxes over boxes[1:], `merged` non-empty.
RECURSIVE Sweep(_, _, _)
Sweep(self, merged, rest) ==
    IF rest = <<>> THEN merged
    ELSE LET last == merged[Len(merged)]
             b    == Head(rest)
         IN  IF MergesInto(self, last, b)
             THEN Sweep(self,
                        [merged EXCEPT ![Len(merged)] = MergeBox(last, b)],
                        Tail(rest))
             ELSE Sweep(self, Append(merged, b), Tail(rest))

\* Mutant of SortByAreaDesc: reverse=True forgotten, smallest area first.
SortByAreaDesc_Ascending(merged) ==
    StableSort(merged, [i \in DOMAIN merged |-> BoxArea(merged[i])])

\* merged.sort(key=area, reverse=True): stable, largest area first.
SortByAreaDesc(merged) ==
    StableSort(merged, [i \in DOMAIN merged |-> 0 - BoxArea(merged[i])])

\* ROIExtractor._merge_boxes
merge_boxes(self, boxes) ==
    IF boxes = <<>> THEN <<>>
    ELSE LET sorted == StableSort(boxes, [i \in DOMAIN boxes |-> boxes[i][1]])
         IN  SortByAreaDesc(Sweep(self, <<sorted[1]>>, Tail(sorted)))

\* Mutant of PadClamp: the right and bottom edges are not clamped.
PadClamp_NoUpperClamp(self, frame, b) ==
    LET p == self.padding
    IN  <<IF b[1] - p > 0 THEN b[1] - p ELSE 0,
          IF b[2] - p > 0 THEN b[2] - p ELSE 0,
          b[3] + p,
          b[4] + p>>

\* Add padding and clamp to the frame: the crop rectangle <<x1, y1, x2, y2>>.
PadClamp(self, frame, b) ==
    LET w == frame[1]
        h == frame[2]
        p == self.padding
    IN  <<IF b[1] - p > 0 THEN b[1] - p ELSE 0,
          IF b[2] - p > 0 THEN b[2] - p ELSE 0,
          IF b[3] + p < w THEN b[3] + p ELSE w,
          IF b[4] + p < h THEN b[4] + p ELSE h>>

\* Mutant of TooSmall: `and` in place of `or`.
TooSmall_Both(self, c) ==
    c[3] - c[1] < self.min_size[1] /\ c[4] - c[2] < self.min_size[2]

\* if roi_w < self.min_size[0] or roi_h < self.min_size[1]: continue
TooSmall(self, c) ==
    c[3] - c[1] < self.min_size[1] \/ c[4] - c[2] < self.min_size[2]

\* ROI(image=crop, bbox=(x1, y1, roi_w, roi_h)); the image is kept as the
\* rectangle it was cropped from.
ROI(c) == [image |-> c, bbox |-> <<c[1], c[2], c[3] - c[1], c[4] - c[2]>>]

\* merged[:self.max_rois]
Prefix(seq, n) == SubSeq(seq, 1, IF Len(seq) < n THEN Len(seq) ELSE n)

\* The crop loop of extract over the kept boxes.
RECURSIVE Crop(_, _, _)
Crop(self, frame, kept) ==
    IF kept = <<>> THEN <<>>
    ELSE LET c == PadClamp(self, frame, Head(kept))
         IN  IF TooSmall(self, c) THEN Crop(self, frame, Tail(kept))
             ELSE <<ROI(c)>> \o Crop(self, frame, Tail(kept))

\* Mutant of extract: boxes are filtered by min_size before the max_rois cap.
extract_FilterBeforeCap(self, frame, contours) ==
    IF contours = <<>> THEN [merged |-> <<>>, rois |-> <<>>]
    ELSE LET boxes  == [i \in DOMAIN contours |-> BoundingBox(contours[i])]
             merged == merge_boxes(self, boxes)
         IN  [merged |-> merged,
              rois   |-> Prefix(Crop(self, frame, merged), self.max_rois)]

\* ROIExtractor.extract: the local `merged` and the list returned.
extract(self, frame, contours) ==
    IF contours = <<>> THEN [merged |-> <<>>, rois |-> <<>>]
    ELSE LET boxes  == [i \in DOMAIN contours |-> BoundingBox(contours[i])]
             merged == merge_boxes(self, boxes)
         IN  [merged |-> merged,
              rois   |-> Crop(self, frame, Prefix(merged, self.max_rois))]

(***************************************************************************)
(* The sampling tick                                                       *)
(*                                                                         *)
(* One pipeline sequence per tick: capture, detect, extract, OCR, gate,    *)
(* send, pace.  With more than one ROI the OCR calls run concurrently, one *)
(* worker per ROI, and the tick waits for all of them.                     *)
(***************************************************************************)

\* Ticks followed.
MaxTicks == 2

\* ROIExtractor's default max_rois: the most ROIs, and OCR workers, per tick.
max_rois_default == 3

\* Texts an OCR call may return: two of the same length among them.
TickTexts == {"", "aa", "bb", "ccc"}

\* best = max(results, key=lambda r: len(r.text)): the first longest.
PickBest(results) ==
    LET longest == SetMax({Len(results[i].text) : i \in DOMAIN results})
    IN  results[SetMin({i \in DOMAIN results :
                           Len(results[i].text) = longest})]

\* Mutant of CollectResults: results gathered in completion order.
CollectResults_AsCompleted(o, n) == [k \in 1..n |-> o.result[o.order[k]]]

\* The results of the tick's OCR calls, one per ROI, in ROI order.
CollectResults(o, n) == [i \in 1..n |-> o.result[i]]

\* Mutant of AllFinished: the tick proceeds once any OCR call has finished.
AllFinished_Any(o, n) ==
    n = 0 \/ \E i \in 1..n : o.status[i] \in {"done", "timed_out"}

\* Every OCR call of the tick has finished or timed out.
AllFinished(o, n) == \A i \in 1..n : o.status[i] \in {"done", "timed_out"}

\* The OCR result handed to the gate: none needed without ROIs.
SelectResult(o, n) ==
    IF n = 0 THEN OCRResult("") ELSE PickBest(CollectResults(o, n))

\* The OCR calls of a tick with n ROIs, all started.
StartOcr(n) ==
    [status   |-> [i \in 1..max_rois_default |->
                      IF i <= n THEN "running" ELSE "unused"],
     result   |-> [i \in 1..max_rois_default |-> OCRResult("")],
     order    |-> <<>>,
     selected |-> None]

(***************************************************************************)
(* The capture backends                                                    *)
(*                                                                         *)
(* capture_loop is a generator: `pc` is where it stands.  "start": created *)
(* and not yet run; "loop": at the top of `while True`; "yielded":         *)
(* suspended at its yield; "closed": closed by its consumer; "raised":     *)
(* ended by an exception that left the generator.  Frames are identified   *)
(* by their timestamps.  Logging and pacing change nothing modelled here.  *)
(***************************************************************************)

\* Loop iterations followed.
MaxIters == 3

\* Frames the SCStream delivers to its callback.
MaxFrames == 4

\* queue.Queue(maxsize=3)
queue_maxsize == 3

Backends == {"ScreenCapture", "SCKCapture", "ScreenKitCapture"}

\* Timestamps in the overlay's meta.json.
MetaTimestamps == {1, 2}

\* __init__ of each backend, and the generator created on it.
CaptureBackend(backend, setup_done) ==
    [backend |-> backend, pc |-> "start",
     stats_ok |-> 0, stats_fail |-> 0,
     setup_done |-> setup_done, stream |-> setup_done,
     queue |-> <<>>, produced |-> 0,
     last_frame_ts |-> 0,
     iter |-> 0, yielded |-> 0, prev |-> "none", out |-> 0]

\* The generator suspends at its yield with a frame.
YieldFrame(self, ts) ==
    [self EXCEPT !.pc = "yielded", !.out = ts, !.yielded = @ + 1,
                 !.prev = "ok", !.iter = @ + 1]

\* An iteration that yields nothing: back to the top of the loop.
NoFrame(self) ==
    [self EXCEPT !.pc = "loop", !.prev = "fail", !.iter = @ + 1]

\* ScreenCapture.capture_frame: the frame, or an exception.
ScreenCapture_capture_frame(self, outcome) ==
    CASE outcome = "cg_none" ->
            [self |-> [self EXCEPT !.stats_fail = @ + 1], raised |-> TRUE,
             ts |-> 0]
      [] outcome = "error" ->
            [self |-> self, raised |-> TRUE, ts |-> 0]
      [] outcome = "ok" ->
            [self |-> [self EXCEPT !.stats_ok = @ + 1], raised |-> FALSE,
             ts |-> self.iter + 1]

\* Mutant of ScreenCapture_iteration: the exception leaves the generator.
ScreenCapture_iteration_Uncaught(self, outcome) ==
    LET r == ScreenCapture_capture_frame(self, outcome)
    IN  IF r.raised THEN [r.self EXCEPT !.pc = "raised"]
        ELSE YieldFrame(r.self, r.ts)

\* One iteration of ScreenCapture.capture_loop.
ScreenCapture_iteration(self, outcome) ==
    LET r == ScreenCapture_capture_frame(self, outcome)
    IN  IF r.raised THEN NoFrame(r.self)
        ELSE YieldFrame(r.self, r.ts)

\* One iteration of SCKCapture.capture_loop: queue.get(timeout=2).
SCKCapture_iteration(self) ==
    IF self.queue # <<>>
    THEN YieldFrame([self EXCEPT !.queue = Tail(@), !.stats_ok = @ + 1],
                    Head(self.queue))
    ELSE NoFrame([self EXCEPT !.stats_fail = @ + 1])

\* Mutant of ScreenKitCapture_capture_frame: no duplicate check.
ScreenKitCapture_capture_frame_NoDedup(self, outcome, ts) ==
    CASE outcome = "missing" -> [self |-> self, ret |-> None]
      [] outcome = "error" ->
            [self |-> [self EXCEPT !.stats_fail = @ + 1], ret |-> None]
      [] outcome = "ok" ->
            [self |-> [self EXCEPT !.last_frame_ts = ts,
                                   !.stats_ok = @ + 1],
             ret |-> [ts |-> ts]]

\* ScreenKitCapture.capture_frame: the frame, or None.
ScreenKitCapture_capture_frame(self, outcome, ts) ==
    CASE outcome = "missing" -> [self |-> self, ret |-> None]
      [] outcome = "error" ->
            [self |-> [self EXCEPT !.stats_fail = @ + 1], ret |-> None]
      [] outcome = "ok" ->
            IF ts = self.last_frame_ts
            THEN [self |-> self, ret |-> None]
            ELSE [self |-> [self EXCEPT !.last_frame_ts = ts,
                                        !.stats_ok = @ + 1],
                  ret |-> [ts |-> ts]]

\* One iteration of ScreenKitCapture.capture_loop.
ScreenKitCapture_iteration(self, outcome, ts) ==
    LET r == ScreenKitCapture_capture_frame(self, outcome, ts)
    IN  IF r.ret = None THEN NoFrame(r.self)
        ELSE YieldFrame(r.self, r.ret.ts)

\* Mutant of stream_didOutputSampleBuffer: a full queue gives up its oldest
\* frame for the new one.
stream_didOutputSampleBuffer_DropOldest(self, outcome) ==
    LET ts == self.produced + 1
        s  == [self EXCEPT !.produced = ts]
    IN  IF outcome # "frame" THEN s
        ELSE IF Len(self.queue) < queue_maxsize
        THEN [s EXCEPT !.queue = Append(@, ts)]
        ELSE [s EXCEPT !.queue = Append(Tail(@), ts)]

\* The stream's callback: the frame is queued, or dropped when it is of
\* another type, cannot be converted or the queue is full.
stream_didOutputSampleBuffer(self, outcome) ==
    LET ts == self.produced + 1
        s  == [self EXCEPT !.produced = ts]
    IN  IF outcome = "frame" /\ Len(self.queue) < queue_maxsize
        THEN [s EXCEPT !.queue = Append(@, ts)]
        ELSE s

\* SCKCapture.stop
SCKCapture_stop(self) ==
    IF ~self.stream \/ ~self.setup_done THEN self
    ELSE [self EXCEPT !.stream = FALSE, !.setup_done = FALSE]

\* What create_capture finds: whether SCKCapture.is_available(), what its
\* _setup() does, whether ScreenKitCapture.is_available().
CaptureEnvs ==
    [sck_available : BOOLEAN, setup : {"ok", "raise"},
     ipc_available : BOOLEAN]

\* Mutant of create_capture: the exception of _setup() is not caught.
create_capture_SetupPropagates(env) ==
    IF env.sck_available /\ env.setup = "ok"
    THEN [raised |-> FALSE, ret |-> CaptureBackend("SCKCapture", TRUE)]
    ELSE IF env.sck_available
    THEN [raised |-> TRUE, ret |-> None]
    ELSE IF env.ipc_available
    THEN [raised |-> FALSE, ret |-> CaptureBackend("ScreenKitCapture", FALSE)]
    ELSE [raised |-> FALSE, ret |-> CaptureBackend("ScreenCapture", FALSE)]

\* create_capture: SCKCapture, else ScreenKitCapture, else ScreenCapture.
create_capture(env) ==
    IF env.sck_available /\ env.setup = "ok"
    THEN [raised |-> FALSE, ret |-> CaptureBackend("SCKCapture", TRUE)]
    ELSE IF env.ipc_available
    THEN [raised |-> FALSE, ret |-> CaptureBackend("ScreenKitCapture", FALSE)]
    ELSE [raised |-> FALSE, ret |-> CaptureBackend("ScreenCapture", FALSE)]

(***************************************************************************)
(* The OCR wrappers                                                        *)
(***************************************************************************)

\* Words in one answer of the OCR engine.
MaxWords == 2

\* LocalOCR(min_confidence=30)
min_confidence_default == 30

\* A conf entry of image_to_data: an integer, or something int() rejects.
Confs ==
    {[int |-> FALSE, v |-> 0], [int |-> TRUE, v |-> -1],
     [int |-> TRUE, v |-> 30], [int |-> TRUE, v |-> 90]}

\* Text entries of image_to_data, and str.strip() of each.
RawWords == {"", " ok", "--"}

strip(w) == IF w = " ok" THEN "ok" ELSE w

\* re.search(r"[a-zA-Z0-9]", w), for the words above
HasAlnum(w) == w = "ok"

\* What pytesseract.image_to_data does: it raises, or returns its table.
TesseractOutcomes ==
    {[kind |-> "raise"]} \cup
    {[kind |-> "data", data |-> d] :
        d \in UNION {[1..n -> [conf : Confs, text : RawWords]] :
                        n \in 0..MaxWords}}

\* What the vision call does within extract's wait_for: it times out, raises,
\* or returns a text ("" on a non-200 answer too).
VisionOutcomes ==
    {[kind |-> "timeout"], [kind |-> "error"]} \cup
    {[kind |-> "text", text |-> t] : t \in {"", "hello"}}

\* OCRResult(text, confidence, word_count); confidence in hundredths.
LocalOCRResult(text, confidence, word_count) ==
    [text |-> text, confidence |-> confidence, word_count |-> word_count]

\* LocalOCR.__init__
LocalOCR(enabled, pytesseract) ==
    [engine |-> "LocalOCR", enabled |-> enabled,
     min_confidence |-> min_confidence_default,
     pytesseract |-> pytesseract]

\* OCREngine.__init__: without an api_key the engine is disabled.
OCREngine(enabled, api_key) ==
    [engine |-> "OCREngine",
     enabled |-> IF api_key = "" THEN FALSE ELSE enabled,
     api_key |-> api_key, total_calls |-> 0, total_chars |-> 0]

\* The words kept: confident enough and not blank, stripped.
RECURSIVE KeptWords(_, _)
KeptWords(self, data) ==
    IF data = <<>> THEN <<>>
    ELSE LET e == Head(data)
         IN  IF e.conf.int /\ e.conf.v >= self.min_confidence
                /\ strip(e.text) # ""
             THEN <<[word |-> strip(e.text), c |-> e.conf.v]>>
                  \o KeptWords(self, Tail(data))
             ELSE KeptWords(self, Tail(data))

\* " ".join(words)
RECURSIVE Join(_)
Join(words) ==
    IF words = <<>> THEN ""
    ELSE IF Len(words) = 1 THEN words[1].word
    ELSE words[1].word \o " " \o Join(Tail(words))

RECURSIVE SumConf(_)
SumConf(words) ==
    IF words = <<>> THEN 0 ELSE words[1].c + SumConf(Tail(words))

\* LocalOCR._clean on the one line the joined words make: the line is
\* dropped unless it holds a letter or a digit.
clean(words) ==
    IF \E i \in DOMAIN words : HasAlnum(words[i].word)
    THEN Join(words) ELSE ""

\* Mutant of LocalOCR_extract: the engine's exception is not caught.
LocalOCR_extract_Uncaught(self, outcome) ==
    IF ~self.enabled \/ ~self.pytesseract
    THEN [raised |-> FALSE, ret |-> LocalOCRResult("", 0, 0)]
    ELSE IF outcome.kind = "raise"
    THEN [raised |-> TRUE, ret |-> LocalOCRResult("", 0, 0)]
    ELSE LET words == KeptWords(self, outcome.data)
         IN  [raised |-> FALSE,
              ret |-> LocalOCRResult(
                          clean(words),
                          IF words = <<>> THEN 0
                          ELSE (100 * SumConf(words)) \div Len(words),
                          Len(words))]

\* LocalOCR.extract
LocalOCR_extract(self, outcome) ==
    IF ~self.enabled \/ ~self.pytesseract
    THEN [raised |-> FALSE, ret |-> LocalOCRResult("", 0, 0)]
    ELSE IF outcome.kind = "raise"
    THEN [raised |-> FALSE, ret |-> LocalOCRResult("", 0, 0)]
    ELSE LET words == KeptWords(self, outcome.data)
         IN  [raised |-> FALSE,
              ret |-> LocalOCRResult(
                          clean(words),
                          IF words = <<>> THEN 0
                          ELSE (100 * SumConf(words)) \div Len(words),
                          Len(words))]

\* OCREngine.extract
OCREngine_extract(self, outcome) ==
    IF ~self.enabled THEN [self |-> self, raised |-> FALSE, ret |-> ""]
    ELSE IF outcome.kind = "text"
    THEN [self |-> [self EXCEPT !.total_calls = @ + 1,
                                !.total_chars = @ + Len(outcome.text)],
          raised |-> FALSE, ret |-> outcome.text]
    ELSE [self |-> self, raised |-> FALSE, ret |-> ""]

(***************************************************************************)
(* The event sender                                                        *)
(*                                                                         *)
(* Time in seconds.  A latency sample is identified by the number of the   *)
(* send call that measured it.                                             *)
(***************************************************************************)

\* Calls of send followed.
MaxSends == 4

\* stats_interval, in seconds
stats_interval_default == 60

\* Seconds between the sender's construction, or a send, and the next send.
SendGaps == {1, 59, 60}

\* What the one delivery attempt comes to.
DeliveryOutcomes == {"2xx", "non_2xx", "transport_failure"}

\* SenseSender(url=...): no latencies, the last report at construction time.
SenseSender(now) ==
    [latencies |-> <<>>, last_stats_ts |-> now,
     stats_interval |-> stats_interval_default]

\* Mutant of StatsDue: the interval must have been exceeded.
StatsDue_Strict(self, now) == now - self.last_stats_ts > self.stats_interval

\* A report is due: stats_interval seconds since the last one.
StatsDue(self, now) == now - self.last_stats_ts >= self.stats_interval

\* The report, if due: it covers the window, which is then reset.
maybe_log_stats(self, now) ==
    IF StatsDue(self, now)
    THEN [self |-> [self EXCEPT !.latencies = <<>>, !.last_stats_ts = now],
          report |-> <<self.latencies>>]
    ELSE [self |-> self, report |-> <<>>]

\* Mutant of send: a failed attempt is made once more.
send_Retry(self, now, sample, outcome) ==
    LET logged == maybe_log_stats(
                      [self EXCEPT !.latencies = Append(@, sample)], now)
    IN  [self |-> logged.self, report |-> logged.report,
         attempts |-> IF outcome = "2xx" THEN 1 ELSE 2,
         ret |-> outcome = "2xx", raised |-> FALSE]

\* send(event) -> bool: one attempt, its latency recorded, stats if due.
send(self, now, sample, outcome) ==
    LET logged == maybe_log_stats(
                      [self EXCEPT !.latencies = Append(@, sample)], now)
    IN  [self |-> logged.self, report |-> logged.report,
         attempts |-> 1,
         ret |-> outcome = "2xx", raised |-> FALSE]

(***************************************************************************)
(* The change detector                                                     *)
(*                                                                         *)
(* A frame is its dimensions and its content; similarity in hundredths.    *)
(***************************************************************************)

\* Calls of compare followed.
MaxCompares == 3

\* Frames handed to compare: two resolutions, three contents.
DetFrames == [size : {<<8, 8>>, <<4, 4>>}, px : 0..2]

\* Similarity thresholds tried, in hundredths.
ThresholdChoices == {50, 92}

\* Structural similarity of two frames of one size: 100 for identical
\* frames, less the more they differ.
Ssim(a, b) ==
    LET d == IF a.px >= b.px THEN a.px - b.px ELSE b.px - a.px
    IN  100 - 30 * d

\* ChangeResult as the detector makes it: contours only below the threshold.
DetectedChange(ssim_score, threshold, frame) ==
    [ssim_score |-> ssim_score,
     contours   |-> IF ssim_score < threshold
                    THEN << <<0, 0, frame.size[1], frame.size[2]>> >>
                    ELSE <<>>]

\* ChangeDetector(threshold=...): no baseline yet.
ChangeDetector(threshold) == [threshold |-> threshold, prev |-> None]

\* set_threshold(value)
set_threshold(self, value) == [self EXCEPT !.threshold = value]

\* There is nothing to compare the frame with.
NoComparison(self, frame) ==
    self.prev = None \/ self.prev.size # frame.size

\* Mutant of compare: a frame of another size does not replace the baseline.
compare_StaleBaseline(self, frame) ==
    IF NoComparison(self, frame)
    THEN [self |-> IF self.prev = None THEN [self EXCEPT !.prev = frame]
                   ELSE self,
          ret |-> None]
    ELSE [self |-> [self EXCEPT !.prev = frame],
          ret |-> DetectedChange(Ssim(self.prev, frame), self.threshold,
                                 frame)]

\* compare(frame) -> ChangeResult | None
compare(self, frame) ==
    IF NoComparison(self, frame)
    THEN [self |-> [self EXCEPT !.prev = frame], ret |-> None]
    ELSE [self |-> [self EXCEPT !.prev = frame],
          ret |-> DetectedChange(Ssim(self.prev, frame), self.threshold,
                                 frame)]

(***************************************************************************)
(* State machine                                                           *)
(***************************************************************************)

\* The components a specification does not exercise stay as they are here.
GateIdle ==
    /\ gate = None /\ clock = 0 /\ call = None /\ ret = None
    /\ prev_event = None /\ prev_text = None

RoiIdle ==
    /\ roi_self = None /\ roi_frame = None /\ roi_contours = None
    /\ roi_ret = None

TickIdle == tick = None /\ tick_ocr = None

CapIdle == cap = None

OcrIdle == ocr_call = None

SenderIdle == sender = None

DetIdle == det = None

AppIdle == app = None

Init ==
    /\ \E m \in MinOcrCharsChoices, c \in CooldownMsChoices :
           gate = DecisionGate(m, major_change_threshold_default, c)
    /\ clock = Epoch
    /\ call = None
    /\ ret = None
    /\ prev_event = None
    /\ prev_text = None
    /\ RoiIdle /\ TickIdle /\ CapIdle /\ OcrIdle
    /\ SenderIdle /\ DetIdle /\ AppIdle

\* One classify call, dt milliseconds after the previous one (the wall clock
\* is taken to be non-decreasing between calls).
Classify ==
    \E dt \in Steps, change \in ChangeResults \cup {None},
       ocr \in OCRResults, app_changed \in BOOLEAN :
        /\ clock + dt <= Epoch + MaxElapsed
        /\ LET now == clock + dt
               r   == classify(gate, now, change, ocr, app_changed)
           IN  /\ clock' = now
               /\ gate' = r.self
               /\ ret' = r.ret
               /\ call' = [change |-> change, ocr |-> ocr,
                           app_changed |-> app_changed]
        /\ prev_event' = IF ret # None THEN ret ELSE prev_event
        /\ prev_text' = IF ret.type = "text" THEN ret ELSE prev_text
        /\ UNCHANGED <<roi_vars, tick_vars, cap, ocr_call,
                   sender, det, app>>

Next == Classify

Spec == Init /\ [][Next]_all_vars

\* -- ROIExtractor: one extractor, one frame, one call of extract.

RoiInit ==
    /\ \E p \in PaddingChoices, m \in MinSizeChoices, k \in MaxRoisChoices :
           roi_self = ROIExtractor(p, m, k)
    /\ roi_frame \in FrameSizes
    /\ roi_contours \in ContourLists
    /\ roi_ret = None
    /\ GateIdle /\ TickIdle /\ CapIdle /\ OcrIdle
    /\ SenderIdle /\ DetIdle /\ AppIdle

\* rois = extractor.extract(frame, contours)
Extract ==
    /\ roi_ret = None
    /\ roi_ret' = extract(roi_self, roi_frame, roi_contours)
    /\ UNCHANGED <<roi_self, roi_frame, roi_contours, vars, tick_vars,
                   cap, ocr_call,
                   sender, det, app>>

RoiNext == Extract

SpecRoi == RoiInit /\ [][RoiNext]_all_vars

\* -- The sampling tick.

TickInit ==
    /\ tick = [n |-> 1, pc |-> "capture", rois |-> 0, done |-> {}]
    /\ tick_ocr = StartOcr(0)
    /\ GateIdle /\ RoiIdle /\ CapIdle /\ OcrIdle
    /\ SenderIdle /\ DetIdle /\ AppIdle

\* A step of the pipeline that only hands over to the next one.
TickStep(from, to) ==
    /\ tick.pc = from
    /\ tick' = [tick EXCEPT !.pc = to, !.done = @ \cup {from}]

\* Frame acquisition.
TickCapture ==
    /\ TickStep("capture", "detect")
    /\ UNCHANGED <<tick_ocr, vars, roi_vars, cap, ocr_call,
                   sender, det, app>>

\* Change detection.
TickDetect ==
    /\ TickStep("detect", "extract")
    /\ UNCHANGED <<tick_ocr, vars, roi_vars, cap, ocr_call,
                   sender, det, app>>

\* ROI extraction: n ROIs, and one OCR call started per ROI.
TickExtract ==
    \E n \in 0..max_rois_default :
        /\ tick.pc = "extract"
        /\ tick' = [tick EXCEPT !.pc = "ocr", !.rois = n,
                                !.done = @ \cup {"extract"}]
        /\ tick_ocr' = StartOcr(n)
        /\ UNCHANGED <<vars, roi_vars, cap, ocr_call,
                   sender, det, app>>

\* One OCR call returns its text.
OcrFinish ==
    \E i \in 1..max_rois_default, t \in TickTexts :
        /\ tick_ocr.status[i] = "running"
        /\ tick_ocr' = [tick_ocr EXCEPT !.status[i] = "done",
                                        !.result[i] = OCRResult(t),
                                        !.order = Append(@, i)]
        /\ UNCHANGED <<tick, vars, roi_vars, cap, ocr_call,
                   sender, det, app>>

\* One OCR call times out: an empty result for that ROI.
OcrTimeout ==
    \E i \in 1..max_rois_default :
        /\ tick_ocr.status[i] = "running"
        /\ tick_ocr' = [tick_ocr EXCEPT !.status[i] = "timed_out",
                                        !.result[i] = OCRResult(""),
                                        !.order = Append(@, i)]
        /\ UNCHANGED <<tick, vars, roi_vars, cap, ocr_call,
                   sender, det, app>>

\* The tick has waited for its OCR calls and picks the result for the gate.
OcrJoin ==
    /\ tick.pc = "ocr"
    /\ AllFinished(tick_ocr, tick.rois)
    /\ tick' = [tick EXCEPT !.pc = "gate", !.done = @ \cup {"ocr"}]
    /\ tick_ocr' = [tick_ocr EXCEPT
                       !.selected = SelectResult(tick_ocr, tick.rois)]
    /\ UNCHANGED <<vars, roi_vars, cap, ocr_call,
                   sender, det, app>>

\* gate.classify(change, selected, app_changed)
TickGate ==
    /\ TickStep("gate", "send")
    /\ UNCHANGED <<tick_ocr, vars, roi_vars, cap, ocr_call,
                   sender, det, app>>

\* sender.send(event), if the gate returned one.
TickSend ==
    /\ TickStep("send", "pace")
    /\ UNCHANGED <<tick_ocr, vars, roi_vars, cap, ocr_call,
                   sender, det, app>>

\* Pace to the next tick.
TickPace ==
    /\ tick.pc = "pace"
    /\ tick.n < MaxTicks
    /\ tick' = [n |-> tick.n + 1, pc |-> "capture", rois |-> 0, done |-> {}]
    /\ UNCHANGED <<tick_ocr, vars, roi_vars, cap, ocr_call,
                   sender, det, app>>

TickNext ==
    \/ TickCapture \/ TickDetect \/ TickExtract
    \/ OcrFinish \/ OcrTimeout \/ OcrJoin
    \/ TickGate \/ TickSend \/ TickPace

SpecTick == TickInit /\ [][TickNext]_all_vars

\* -- The capture backends.

non_cap_vars == <<vars, roi_vars, tick_vars, ocr_call, sender, det, app>>

\* A backend as create_capture returns it (SCKCapture set up eagerly), or an
\* SCKCapture constructed directly, and capture_loop() called on it.
CapInit ==
    /\ \/ \E b \in Backends : cap = CaptureBackend(b, b = "SCKCapture")
       \/ cap = CaptureBackend("SCKCapture", FALSE)
    /\ GateIdle /\ RoiIdle /\ TickIdle /\ OcrIdle
    /\ SenderIdle /\ DetIdle /\ AppIdle

\* The first next(): the generator runs up to its loop.  SCKCapture sets up
\* first if it has not been, and a failed setup leaves the generator.
CapStart ==
    /\ cap.pc = "start"
    /\ \/ /\ cap.backend = "SCKCapture" => cap.setup_done
          /\ cap' = [cap EXCEPT !.pc = "loop"]
       \/ /\ cap.backend = "SCKCapture" /\ ~cap.setup_done
          /\ \/ cap' = [cap EXCEPT !.pc = "loop", !.setup_done = TRUE,
                                   !.stream = TRUE]
             \/ \E st \in BOOLEAN :
                    cap' = [cap EXCEPT !.pc = "raised", !.stream = st]
    /\ UNCHANGED non_cap_vars

\* The consumer asks for the next frame after one was yielded.
CapResume ==
    /\ cap.pc = "yielded"
    /\ cap' = [cap EXCEPT !.pc = "loop"]
    /\ UNCHANGED non_cap_vars

ScreenCaptureLoop ==
    /\ cap.backend = "ScreenCapture" /\ cap.pc = "loop"
    /\ cap.iter < MaxIters
    /\ \E outcome \in {"ok", "cg_none", "error"} :
           cap' = ScreenCapture_iteration(cap, outcome)
    /\ UNCHANGED non_cap_vars

SCKCaptureLoop ==
    /\ cap.backend = "SCKCapture" /\ cap.pc = "loop"
    /\ cap.iter < MaxIters
    /\ cap' = SCKCapture_iteration(cap)
    /\ UNCHANGED non_cap_vars

ScreenKitCaptureLoop ==
    /\ cap.backend = "ScreenKitCapture" /\ cap.pc = "loop"
    /\ cap.iter < MaxIters
    /\ \E outcome \in {"ok", "missing", "error"}, ts \in MetaTimestamps :
           cap' = ScreenKitCapture_iteration(cap, outcome, ts)
    /\ UNCHANGED non_cap_vars

\* The running stream delivers a sample buffer.
SCKCallback ==
    /\ cap.backend = "SCKCapture" /\ cap.stream /\ cap.setup_done
    /\ cap.produced < MaxFrames
    /\ \E outcome \in {"frame", "other_type", "convert_error"} :
           cap' = stream_didOutputSampleBuffer(cap, outcome)
    /\ UNCHANGED non_cap_vars

\* The consumer closes the generator: SCKCapture's `finally` stops the
\* stream if the loop had been entered.
CapClose ==
    /\ cap.pc \in {"start", "yielded"}
    /\ cap' = IF cap.backend = "SCKCapture" /\ cap.pc = "yielded"
              THEN [SCKCapture_stop(cap) EXCEPT !.pc = "closed"]
              ELSE [cap EXCEPT !.pc = "closed"]
    /\ UNCHANGED non_cap_vars

CapNext ==
    \/ CapStart \/ CapResume
    \/ ScreenCaptureLoop \/ SCKCaptureLoop \/ ScreenKitCaptureLoop
    \/ SCKCallback \/ CapClose

SpecCapture == CapInit /\ [][CapNext]_all_vars

\* -- create_capture, and the capture loop on the backend it returns.

CreateInit ==
    /\ \E env \in CaptureEnvs :
           cap = [pc |-> "create", backend |-> "none", env |-> env]
    /\ GateIdle /\ RoiIdle /\ TickIdle /\ OcrIdle
    /\ SenderIdle /\ DetIdle /\ AppIdle

\* cap = create_capture(...)
CreateCapture ==
    /\ cap.pc = "create"
    /\ LET r == create_capture(cap.env)
       IN  cap' = IF r.raised
                  THEN [cap EXCEPT !.pc = "create_raised"]
                  ELSE r.ret @@ [env |-> cap.env]
    /\ UNCHANGED non_cap_vars

CreateNext ==
    \/ CreateCapture
    \/ CapStart \/ CapResume
    \/ ScreenCaptureLoop \/ SCKCaptureLoop \/ ScreenKitCaptureLoop
    \/ SCKCallback \/ CapClose

SpecCreate == CreateInit /\ [][CreateNext]_all_vars

\* -- The OCR wrappers.

non_ocr_vars == <<vars, roi_vars, tick_vars, cap, sender, det, app>>

OcrInit ==
    /\ \/ \E e \in BOOLEAN, p \in BOOLEAN :
              ocr_call = [self |-> LocalOCR(e, p), pc |-> "ready"]
       \/ \E e \in BOOLEAN, k \in {"", "key"} :
              ocr_call = [self |-> OCREngine(e, k), pc |-> "ready"]
    /\ GateIdle /\ RoiIdle /\ TickIdle /\ CapIdle /\ SenderIdle
    /\ DetIdle /\ AppIdle

\* ocr.extract(image)
LocalExtract ==
    /\ ocr_call.pc = "ready" /\ ocr_call.self.engine = "LocalOCR"
    /\ \E outcome \in TesseractOutcomes :
           LET r == LocalOCR_extract(ocr_call.self, outcome)
           IN  ocr_call' = [self |-> ocr_call.self, call |-> outcome,
                            ret |-> r.ret,
                            pc |-> IF r.raised THEN "raised" ELSE "returned"]
    /\ UNCHANGED non_ocr_vars

\* await engine.extract(frame)
EngineExtract ==
    /\ ocr_call.pc = "ready" /\ ocr_call.self.engine = "OCREngine"
    /\ \E outcome \in VisionOutcomes :
           LET r == OCREngine_extract(ocr_call.self, outcome)
           IN  ocr_call' = [self |-> r.self, call |-> outcome,
                            ret |-> r.ret,
                            pc |-> IF r.raised THEN "raised" ELSE "returned"]
    /\ UNCHANGED non_ocr_vars

OcrNext == LocalExtract \/ EngineExtract

SpecOcr == OcrInit /\ [][OcrNext]_all_vars

\* -- The event sender.

SenderInit ==
    /\ sender = [self |-> SenseSender(0), now |-> 0, calls |-> 0,
                 attempts |-> 0, outcome |-> "none", ret |-> FALSE,
                 raised |-> FALSE, reported |-> FALSE, reports |-> <<>>]
    /\ GateIdle /\ RoiIdle /\ TickIdle /\ CapIdle /\ OcrIdle
    /\ DetIdle /\ AppIdle

\* sender.send(event), some seconds after the previous call.
Send ==
    /\ sender.calls < MaxSends
    /\ \E gap \in SendGaps, outcome \in DeliveryOutcomes :
           LET now == sender.now + gap
               r   == send(sender.self, now, sender.calls + 1, outcome)
           IN  sender' = [self |-> r.self, now |-> now,
                          calls |-> sender.calls + 1,
                          attempts |-> sender.attempts + r.attempts,
                          outcome |-> outcome, ret |-> r.ret,
                          raised |-> r.raised,
                          reported |-> r.report # <<>>,
                          reports |-> sender.reports \o r.report]
    /\ UNCHANGED <<vars, roi_vars, tick_vars, cap, ocr_call, det, app>>

SenderNext == Send

SpecSender == SenderInit /\ [][SenderNext]_all_vars

\* -- The change detector.

non_det_vars == <<vars, roi_vars, tick_vars, cap, ocr_call, sender, app>>

DetInit ==
    /\ \E t \in ThresholdChoices :
           det = [self |-> ChangeDetector(t), calls |-> 0, call |-> None,
                  before |-> None, ret |-> None, before_ret |-> None]
    /\ GateIdle /\ RoiIdle /\ TickIdle /\ CapIdle /\ OcrIdle /\ SenderIdle
    /\ AppIdle

\* detector.compare(frame)
Compare ==
    /\ det.calls < MaxCompares
    /\ \E frame \in DetFrames :
           LET r == compare(det.self, frame)
           IN  det' = [self |-> r.self, calls |-> det.calls + 1,
                       call |-> frame, before |-> det.call,
                       ret |-> r.ret, before_ret |-> det.ret]
    /\ UNCHANGED non_det_vars

\* detector.set_threshold(value)
SetThreshold ==
    /\ \E value \in ThresholdChoices :
           det' = [det EXCEPT !.self = set_threshold(@, value)]
    /\ UNCHANGED non_det_vars

DetNext == Compare \/ SetThreshold

SpecDet == DetInit /\ [][DetNext]_all_vars

\* -- The lifecycle of an SCKCapture: setup, stop and the loop's generator.

MaxOps == 5

\* What _setup does past its guard: it completes, raises before the stream
\* object exists, raises when the output cannot be added, or raises after
\* the start was requested (timeout or start error).
SetupOutcomes == {"ok", "raise_early", "raise_add_output", "raise_start"}

\* SCKCapture._setup: `ran` when the guard let it through, `started` when
\* startCaptureWithCompletionHandler_ was called.
SCKCapture_setup(self, outcome) ==
    IF self.setup_done
    THEN [self |-> self, raised |-> FALSE, ran |-> FALSE, started |-> FALSE]
    ELSE CASE outcome = "ok" ->
                [self |-> [self EXCEPT !.stream = TRUE, !.setup_done = TRUE],
                 raised |-> FALSE, ran |-> TRUE, started |-> TRUE]
           [] outcome = "raise_early" ->
                [self |-> self,
                 raised |-> TRUE, ran |-> TRUE, started |-> FALSE]
           [] outcome = "raise_add_output" ->
                [self |-> [self EXCEPT !.stream = TRUE],
                 raised |-> TRUE, ran |-> TRUE, started |-> FALSE]
           [] outcome = "raise_start" ->
                [self |-> [self EXCEPT !.stream = TRUE],
                 raised |-> TRUE, ran |-> TRUE, started |-> TRUE]

\* SCKCapture.capture_frame: setup, then the timed get (`got`: a frame came).
SCKCapture_capture_frame(self, outcome, got) ==
    LET r == SCKCapture_setup(self, outcome)
    IN  IF r.raised THEN r
        ELSE IF got
        THEN [r EXCEPT !.self.stats_ok = @ + 1]
        ELSE [r EXCEPT !.self.stats_fail = @ + 1, !.raised = TRUE]

\* The state after one more operation `op` on the capture.
SckAfter(op, self, gen, raised, ran, started, stopped) ==
    [pc |-> "lifecycle", backend |-> "SCKCapture",
     self |-> self, gen |-> gen, op |-> op, raised |-> raised,
     calls |-> cap.calls + 1,
     setups |-> cap.setups + (IF ran THEN 1 ELSE 0),
     starts |-> cap.starts + (IF started THEN 1 ELSE 0),
     stop_calls |-> cap.stop_calls + (IF stopped THEN 1 ELSE 0)]

\* cap = SCKCapture(...)
SckInit ==
    /\ cap = [pc |-> "lifecycle", backend |-> "SCKCapture",
              self |-> CaptureBackend("SCKCapture", FALSE), gen |-> "none",
              op |-> "init", raised |-> FALSE, calls |-> 0,
              setups |-> 0, starts |-> 0, stop_calls |-> 0]
    /\ GateIdle /\ RoiIdle /\ TickIdle /\ OcrIdle
    /\ SenderIdle /\ DetIdle /\ AppIdle

\* cap._setup(), as create_capture calls it
SckSetup ==
    /\ cap.pc = "lifecycle" /\ cap.calls < MaxOps
    /\ \E outcome \in SetupOutcomes :
           LET r == SCKCapture_setup(cap.self, outcome)
           IN  cap' = SckAfter("setup", r.self, cap.gen, r.raised, r.ran,
                               r.started, FALSE)
    /\ UNCHANGED non_cap_vars

\* cap.capture_frame()
SckCaptureFrame ==
    /\ cap.pc = "lifecycle" /\ cap.calls < MaxOps
    /\ \E outcome \in SetupOutcomes, got \in BOOLEAN :
           LET r == SCKCapture_capture_frame(cap.self, outcome, got)
           IN  cap' = SckAfter("capture_frame", r.self, cap.gen, r.raised,
                               r.ran, r.started, FALSE)
    /\ UNCHANGED non_cap_vars

\* cap.stop()
SckStop ==
    /\ cap.pc = "lifecycle" /\ cap.calls < MaxOps
    /\ cap' = SckAfter("stop", SCKCapture_stop(cap.self), cap.gen, FALSE,
                       FALSE, FALSE, TRUE)
    /\ UNCHANGED non_cap_vars

\* gen = cap.capture_loop(): a generator object, none of its body run yet.
SckLoopCreate ==
    /\ cap.pc = "lifecycle" /\ cap.calls < MaxOps
    /\ cap.gen \in {"none", "closed", "finished"}
    /\ cap' = SckAfter("capture_loop", cap.self, "created", FALSE,
                       FALSE, FALSE, FALSE)
    /\ UNCHANGED non_cap_vars

\* next(gen): the first one runs _setup(), outside the try, and a failure
\* ends the generator; then the loop runs to its yield.
SckLoopNext ==
    /\ cap.pc = "lifecycle" /\ cap.calls < MaxOps
    /\ \/ /\ cap.gen = "created"
          /\ \E outcome \in SetupOutcomes :
                 LET r == SCKCapture_setup(cap.self, outcome)
                 IN  cap' = SckAfter("next", r.self,
                                     IF r.raised THEN "finished"
                                     ELSE "suspended",
                                     r.raised, r.ran, r.started, FALSE)
       \/ /\ cap.gen = "suspended"
          /\ cap' = SckAfter("next",
                             [cap.self EXCEPT !.stats_ok = @ + 1],
                             "suspended", FALSE, FALSE, FALSE, FALSE)
    /\ UNCHANGED non_cap_vars

\* gen.close(): a generator suspended at its yield runs the `finally`, one
\* that was never started runs nothing.
SckLoopClose ==
    /\ cap.pc = "lifecycle" /\ cap.calls < MaxOps
    /\ \/ /\ cap.gen = "suspended"
          /\ cap' = SckAfter("close", SCKCapture_stop(cap.self), "closed",
                             FALSE, FALSE, FALSE, TRUE)
       \/ /\ cap.gen = "created"
          /\ cap' = SckAfter("close", cap.self, "closed", FALSE, FALSE,
                             FALSE, FALSE)
    /\ UNCHANGED non_cap_vars

SckNext ==
    \/ SckSetup \/ SckCaptureFrame \/ SckStop
    \/ SckLoopCreate \/ SckLoopNext \/ SckLoopClose

SpecSck == SckInit /\ [][SckNext]_all_vars

\* -- The foreground-app detector.

MaxDetects == 4

\* What `osascript` prints for the frontmost process.
AppStdouts == {"", "Safari\n", "Code\n"}

\* What subprocess.run does in get_active_app: it raises (timeout, no
\* osascript), or completes with some stdout.
OsascriptOutcomes ==
    {[kind |-> "raise"]} \cup
    {[kind |-> "stdout", stdout |-> o] : o \in AppStdouts}

\* str.strip(), for the outputs above
strip_stdout(o) ==
    IF o = "Safari\n" THEN "Safari" ELSE IF o = "Code\n" THEN "Code" ELSE o

\* AppDetector.__init__
AppDetector == [last_app |-> ""]

\* AppDetector.get_active_app
get_active_app(outcome) ==
    IF outcome.kind = "raise" THEN "" ELSE strip_stdout(outcome.stdout)

\* Mutant of detect_change: the test on the recorded name is left out.
detect_change_NoEmptyGuard(self, outcome) ==
    LET a == get_active_app(outcome)
    IN  [self |-> [self EXCEPT !.last_app = a],
         ret  |-> <<a # self.last_app, a>>]

\* AppDetector.detect_change: the detector afterwards and (changed, app).
detect_change(self, outcome) ==
    LET a       == get_active_app(outcome)
        changed == a # self.last_app /\ self.last_app # ""
    IN  [self |-> [self EXCEPT !.last_app = a],
         ret  |-> <<changed, a>>]

non_app_vars == <<vars, roi_vars, tick_vars, cap, ocr_call, sender, det>>

AppInit ==
    /\ app = [self |-> AppDetector, calls |-> 0, before |-> AppDetector,
              outcome |-> None, returned |-> <<>>]
    /\ GateIdle /\ RoiIdle /\ TickIdle /\ CapIdle /\ OcrIdle /\ SenderIdle
    /\ DetIdle

\* detector.detect_change(); `returned` keeps what every call returned.
DetectChange ==
    /\ app.calls < MaxDetects
    /\ \E outcome \in OsascriptOutcomes :
           LET r == detect_change(app.self, outcome)
           IN  app' = [self |-> r.self, calls |-> app.calls + 1,
                       before |-> app.self, outcome |-> outcome,
                       returned |-> Append(app.returned, r.ret)]
    /\ UNCHANGED non_app_vars

AppNext == DetectChange

SpecApp == AppInit /\ [][AppNext]_all_vars

(***************************************************************************)
(* Observations used by the properties                                     *)
(***************************************************************************)

\* The call recorded in `call` passed the guards that precede the content
\* branches: no app switch and a change result.
ContentCall(c) == c # None /\ ~c.app_changed /\ c.change # None

\* The latest event returned so far, the latest call included.
LatestEvent == IF ret # None THEN ret ELSE prev_event

\* The latest text event returned so far, the latest call included.
LatestText == IF ret.type = "text" THEN ret ELSE prev_text

(***************************************************************************)
(* C1  Cooldown.  Any two consecutively emitted events are at least the    *)
(* cooldown in effect apart; the gate of gate.py has one cooldown,         *)
(* cooldown_ms, in effect for every event type, so in particular two       *)
(* consecutive non-context events are at least cooldown_ms apart.          *)
(***************************************************************************)
C1_Cooldown ==
    (ret # None /\ prev_event # None) =>
        ret.ts - prev_event.ts >= gate.cooldown_ms

\* Two non-context events in a row, exactly one cooldown apart.
C1_Witness ==
    /\ ret # None /\ prev_event # None
    /\ ret.type # "context" /\ prev_event.type # "context"
    /\ ret.ts - prev_event.ts = gate.cooldown_ms

(***************************************************************************)
(* C2  Dedup on consecutive calls.  After a call that emitted a text       *)
(* event for text T, the next call with no app switch, a change result     *)
(* and the same text T returns no event, whatever time has passed.         *)
(***************************************************************************)
C2_Dedup ==
    [][(/\ ret.type = "text"
        /\ ContentCall(call')
        /\ call'.ocr.text = ret.ocr
        /\ Len(ret.ocr) >= gate.min_ocr_chars)
       => ret' = None]_vars

\* The repeated text arrives after the cooldown has passed and is dropped.
C2_Witness ==
    /\ ret = None /\ ContentCall(call)
    /\ prev_event.type = "text"
    /\ call.ocr.text = prev_event.ocr
    /\ gate.last_send_ts = prev_event.ts
    /\ clock - prev_event.ts > gate.cooldown_ms

(***************************************************************************)
(* C3  Two consecutively emitted text events never carry the same content  *)
(* fingerprint, whatever was dropped or emitted between them, and          *)
(* last_ocr_hash is the fingerprint of the latest emitted text event       *)
(* ("" before the first one).                                              *)
(***************************************************************************)
C3_TextHashes ==
    /\ (ret.type = "text" /\ prev_text # None) =>
           md5_hexdigest(ret.ocr) # md5_hexdigest(prev_text.ocr)
    /\ gate.last_ocr_hash =
           IF LatestText = None THEN "" ELSE md5_hexdigest(LatestText.ocr)

\* A second text event, with a visual or context event emitted in between.
C3_Witness ==
    /\ ret.type = "text" /\ prev_text # None
    /\ prev_event.type \in {"visual", "context"}

(***************************************************************************)
(* Configuration of the adaptive gate that the tests construct             *)
(* (tests/test_stream1_optimizations.py); DecisionGate.__init__ of gate.py *)
(* takes none of these parameters.                                         *)
(***************************************************************************)

\* DecisionGate(..., context_cooldown_ms=0)
context_cooldown_ms == 0

\* DecisionGate(..., adaptive_cooldown_ms=2000)
adaptive_cooldown_ms == 2000

\* The adaptive window: "app change 1s ago (within 10s)".
adaptive_window_ms == 10000

\* A call that would emit a text or visual event if no cooldown applied:
\* no app switch, a change result, and either a sufficient, non-empty text
\* with a new fingerprint or a text below min_ocr_chars with a major change.
QualifyingTrigger(g, c) ==
    /\ ContentCall(c)
    /\ \/ /\ c.ocr.text # ""
          /\ Len(c.ocr.text) >= g.min_ocr_chars
          /\ md5_hexdigest(c.ocr.text) # g.last_ocr_hash
       \/ /\ Len(c.ocr.text) < g.min_ocr_chars
          /\ c.change.ssim_score < g.major_change_threshold

(***************************************************************************)
(* C4  Context events.  A call with app_changed = true emits a context     *)
(* event and sets last_send_ts = now iff now - last_send_ts >=             *)
(* context_cooldown_ms, independently of the general cooldown; with        *)
(* context_cooldown_ms = 0 every such call emits a context event.          *)
(* gate.py runs the general cooldown check first, so this fails.           *)
(***************************************************************************)
C4_ContextCooldown ==
    [][call'.app_changed =>
        ((ret'.type = "context" /\ gate'.last_send_ts = clock')
            <=> clock' - gate.last_send_ts >= context_cooldown_ms)]_vars

(***************************************************************************)
(* C5  Adaptive cooldown.  After an app switch at T0 (here: one that       *)
(* emitted its context event, so that T0 is also the time of the last      *)
(* emission), a qualifying trigger at T0 + x with x <= adaptive_window_ms  *)
(* is emitted iff the time since the last emission is at least             *)
(* adaptive_cooldown_ms.  gate.py applies cooldown_ms instead.             *)
(***************************************************************************)
C5_AdaptiveCooldown ==
    [][(/\ LatestEvent.type = "context"
        /\ gate.last_send_ts = LatestEvent.ts
        /\ QualifyingTrigger(gate, call')
        /\ clock' - LatestEvent.ts <= adaptive_window_ms)
       => (ret' # None <=>
               clock' - gate.last_send_ts >= adaptive_cooldown_ms)]_vars

(***************************************************************************)
(* C6  The gate keeps an attribute last_app_change_ts, 0 on construction   *)
(* and set to now by every call with app_changed = true.  The gate of      *)
(* gate.py has no such attribute.                                          *)
(***************************************************************************)
C6_LastAppChangeTs ==
    /\ "last_app_change_ts" \in DOMAIN gate
    /\ call = None => gate.last_app_change_ts = 0
    /\ (call # None /\ call.app_changed) => gate.last_app_change_ts = clock

(***************************************************************************)
(* C7  Text sufficiency, as claimed: no app switch, cooldown elapsed, a    *)
(* change result, len(text) >= min_ocr_chars (the empty text included)     *)
(* and a new fingerprint give a text event with the text and the ssim      *)
(* score, and update last_ocr_hash and last_send_ts.                       *)
(***************************************************************************)
TextCase(g, c, now) ==
    /\ ContentCall(c)
    /\ now - g.last_send_ts >= g.cooldown_ms
    /\ Len(c.ocr.text) >= g.min_ocr_chars
    /\ md5_hexdigest(c.ocr.text) # g.last_ocr_hash

TextEmitted(g, c, now, r) ==
    /\ r.ret.type = "text"
    /\ r.ret.ts = now
    /\ r.ret.ocr = c.ocr.text
    /\ r.ret.meta.ssim = c.change.ssim_score
    /\ r.self.last_ocr_hash = md5_hexdigest(c.ocr.text)
    /\ r.self.last_send_ts = now

C7_TextSufficiency_Original ==
    [][TextCase(gate, call', clock')
       => TextEmitted(gate, call', clock', [self |-> gate', ret |-> ret'])]_vars

\* C7 as amended: the same for every non-empty text.  (An empty text never
\* takes the text branch, whatever min_ocr_chars is.)
C7_TextSufficiency ==
    [][(TextCase(gate, call', clock') /\ call'.ocr.text # "")
       => TextEmitted(gate, call', clock', [self |-> gate', ret |-> ret'])]_vars

\* A text of exactly min_ocr_chars characters emitted with the ssim score
\* above the major-change threshold.
C7_Witness ==
    /\ ret.type = "text" /\ ContentCall(call)
    /\ ret.ocr = call.ocr.text
    /\ Len(ret.ocr) = gate.min_ocr_chars
    /\ call.change.ssim_score > gate.major_change_threshold
    /\ ret.meta.ssim = call.change.ssim_score

(***************************************************************************)
(* C8  Visual fallback.  No app switch, cooldown elapsed, a change result  *)
(* and a text shorter than min_ocr_chars: a visual event is emitted iff    *)
(* ssim_score < major_change_threshold, strictly; it carries the OCR text  *)
(* and the ssim score; otherwise nothing is returned.                      *)
(***************************************************************************)
C8_VisualFallback ==
    [][(/\ ContentCall(call')
        /\ clock' - gate.last_send_ts >= gate.cooldown_ms
        /\ Len(call'.ocr.text) < gate.min_ocr_chars)
       => IF call'.change.ssim_score < gate.major_change_threshold
          THEN /\ ret'.type = "visual"
               /\ ret'.ts = clock'
               /\ ret'.ocr = call'.ocr.text
               /\ ret'.meta.ssim = call'.change.ssim_score
          ELSE ret' = None]_vars

\* A visual event that carries a short, non-empty OCR text.
C8_Witness ==
    /\ ret.type = "visual" /\ ContentCall(call)
    /\ ret.ocr = call.ocr.text /\ ret.ocr # ""
    /\ Len(ret.ocr) < gate.min_ocr_chars

(***************************************************************************)
(* C9  Emission and state update go together.  A call that returns no      *)
(* event leaves the gate unchanged; a call that returns an event has set   *)
(* last_send_ts to the event's ts and, for text events only, last_ocr_hash *)
(* to the text's fingerprint.                                              *)
(***************************************************************************)
C9_AtomicUpdate ==
    [][/\ ret' = None => gate' = gate
       /\ ret' # None =>
            /\ gate' = [gate EXCEPT
                   !.last_send_ts = ret'.ts,
                   !.last_ocr_hash = IF ret'.type = "text"
                                     THEN md5_hexdigest(ret'.ocr)
                                     ELSE gate.last_ocr_hash]
            /\ ret'.ts = clock']_vars

\* A visual event emitted after a text event: the timestamp moved, the
\* fingerprint of the text stayed.
C9_Witness ==
    /\ ret.type = "visual" /\ prev_text # None
    /\ gate.last_send_ts = ret.ts
    /\ gate.last_ocr_hash = md5_hexdigest(prev_text.ocr)

(***************************************************************************)
(* C10  No baseline.  A call with change = None and no app switch returns  *)
(* no event for every OCR result and records nothing, so the same text     *)
(* still has a new fingerprint on a later tick.                            *)
(***************************************************************************)
C10_NoBaseline ==
    [][(call'.change = None /\ ~call'.app_changed)
       => (ret' = None /\ gate' = gate)]_vars

\* A sufficient text with a new fingerprint, outside the cooldown, dropped
\* for want of a baseline and not recorded.
C10_Witness ==
    /\ call # None /\ call.change = None /\ ~call.app_changed
    /\ ret = None
    /\ call.ocr.text # ""
    /\ Len(call.ocr.text) >= gate.min_ocr_chars
    /\ md5_hexdigest(call.ocr.text) # gate.last_ocr_hash
    /\ clock - gate.last_send_ts >= gate.cooldown_ms

(***************************************************************************)
(* Observations of the ROI extractor                                       *)
(***************************************************************************)

\* The bounding boxes of the contours passed to extract, in that order.
RoiBoxes == [i \in DOMAIN roi_contours |-> BoundingBox(roi_contours[i])]

\* Horizontal gap between two boxes (not positive when they overlap).
HGap(a, b) == SetMax({a[1], b[1]}) - SetMin({a[3], b[3]})

\* The vertical extents of two boxes overlap within p.
VOverlapWithin(a, b, p) == a[2] <= b[4] + p /\ b[2] <= a[4] + p

\* The merge condition of the specification, for two boxes in any order.
MergeCondition(a, b, p) == HGap(a, b) <= p /\ VOverlapWithin(a, b, p)

\* Element-wise min of the top-left and max of the bottom-right corners.
Hull(a, b) ==
    <<SetMin({a[1], b[1]}), SetMin({a[2], b[2]}),
      SetMax({a[3], b[3]}), SetMax({a[4], b[4]})>>

\* w * h of a bbox <<x, y, w, h>>.
BboxArea(bbox) == bbox[3] * bbox[4]

(***************************************************************************)
(* C11  ROI merge.  Two bounding boxes whose horizontal gap is <= padding  *)
(* and whose vertical extents overlap within padding are merged by         *)
(* _merge_boxes into exactly one box, their element-wise min/max hull, in  *)
(* whichever order they are supplied.                                      *)
(***************************************************************************)
C11_MergeTwo ==
    (/\ roi_ret # None
     /\ Len(roi_contours) = 2
     /\ MergeCondition(RoiBoxes[1], RoiBoxes[2], roi_self.padding))
    => roi_ret.merged = <<Hull(RoiBoxes[1], RoiBoxes[2])>>

\* Two boxes exactly one padding apart, the right-hand one supplied first.
C11_Witness ==
    /\ roi_ret # None
    /\ Len(roi_contours) = 2
    /\ RoiBoxes[1][1] > RoiBoxes[2][1]
    /\ HGap(RoiBoxes[1], RoiBoxes[2]) = roi_self.padding
    /\ VOverlapWithin(RoiBoxes[1], RoiBoxes[2], roi_self.padding)
    /\ Len(roi_ret.merged) = 1

(***************************************************************************)
(* C12  extract returns at most max_rois ROIs, each at least min_size wide *)
(* and high after padding and clamping; no contours give no ROIs.          *)
(***************************************************************************)
C12_SizeInvariant ==
    roi_ret # None =>
        /\ Len(roi_ret.rois) <= roi_self.max_rois
        /\ \A i \in DOMAIN roi_ret.rois :
               /\ roi_ret.rois[i].bbox[3] >= roi_self.min_size[1]
               /\ roi_ret.rois[i].bbox[4] >= roi_self.min_size[2]
        /\ roi_contours = <<>> => roi_ret.rois = <<>>

\* More merged boxes than max_rois, and a kept box dropped for its size.
C12_Witness ==
    /\ roi_ret # None
    /\ Len(roi_ret.merged) > roi_self.max_rois
    /\ Len(roi_ret.rois) >= 1
    /\ Len(roi_ret.rois) < roi_self.max_rois

(***************************************************************************)
(* C13  Every ROI returned by extract has a bbox (x, y, w, h) inside the   *)
(* frame: x >= 0, y >= 0, x + w <= frame width, y + h <= frame height.     *)
(***************************************************************************)
C13_BboxInFrame ==
    roi_ret # None =>
        \A i \in DOMAIN roi_ret.rois :
            LET b == roi_ret.rois[i].bbox
            IN  /\ b[1] >= 0 /\ b[2] >= 0
                /\ b[1] + b[3] <= roi_frame[1]
                /\ b[2] + b[4] <= roi_frame[2]

\* An ROI cut from a contour that reaches beyond the frame's right edge.
C13_Witness ==
    /\ roi_ret # None
    /\ \E i \in DOMAIN roi_ret.rois :
           roi_ret.rois[i].bbox[1] + roi_ret.rois[i].bbox[3] = roi_frame[1]
    /\ \E i \in DOMAIN roi_contours : RoiBoxes[i][3] > roi_frame[1]

(***************************************************************************)
(* C14  As claimed: the ROIs returned are in descending order of the area  *)
(* of their bbox.                                                          *)
(***************************************************************************)
C14_DescendingBboxArea ==
    roi_ret # None =>
        \A i \in 1..(Len(roi_ret.rois) - 1) :
            BboxArea(roi_ret.rois[i].bbox) >= BboxArea(roi_ret.rois[i + 1].bbox)

\* C14 as amended: the merged boxes are in descending order of their area
\* before padding and clamping, and the ROIs returned are cut from them in
\* that order.
C14_DescendingMergedArea ==
    roi_ret # None =>
        LET m == roi_ret.merged
            r == roi_ret.rois
        IN  /\ \A i \in 1..(Len(m) - 1) : BoxArea(m[i]) >= BoxArea(m[i + 1])
            /\ \E f \in [DOMAIN r -> DOMAIN m] :
                   /\ \A i, j \in DOMAIN r : i < j => f[i] < f[j]
                   /\ \A i \in DOMAIN r :
                          r[i].image = PadClamp(roi_self, roi_frame, m[f[i]])

\* Two ROIs: the first from the larger merged box, with the smaller bbox.
C14_Witness ==
    /\ roi_ret # None
    /\ Len(roi_ret.rois) = 2 /\ Len(roi_ret.merged) = 2
    /\ BoxArea(roi_ret.merged[1]) > BoxArea(roi_ret.merged[2])
    /\ BboxArea(roi_ret.rois[1].bbox) < BboxArea(roi_ret.rois[2].bbox)

(***************************************************************************)
(* C15  The OCR result passed to the gate is the one with the greatest     *)
(* text length among the tick's completed results, and the choice does not *)
(* depend on the order the OCR calls completed in: it is the first longest *)
(* result in ROI order, also when two results are equally long.            *)
(***************************************************************************)
C15_BestResult ==
    (tick.pc \in {"gate", "send", "pace"} /\ tick.rois > 0) =>
        LET lens == [i \in 1..tick.rois |-> Len(tick_ocr.result[i].text)]
        IN  \E i \in 1..tick.rois :
                /\ tick_ocr.selected = tick_ocr.result[i]
                /\ \A j \in 1..tick.rois : lens[j] <= lens[i]
                /\ \A j \in 1..(i - 1) : lens[j] < lens[i]

\* Two equally long, different results, the second ROI's completed first.
C15_Witness ==
    /\ tick.pc = "gate" /\ tick.rois >= 2
    /\ tick_ocr.selected = tick_ocr.result[1]
    /\ tick_ocr.result[1] # tick_ocr.result[2]
    /\ Len(tick_ocr.result[1].text) = Len(tick_ocr.result[2].text)
    /\ Len(tick_ocr.result[1].text) > 0
    /\ tick_ocr.order[1] = 2

(***************************************************************************)
(* C16  The gate is invoked only after every OCR call started for the      *)
(* tick's ROIs has finished or timed out, and a tick starts only after the *)
(* previous tick's gate and send steps have completed.                     *)
(***************************************************************************)
C16_JoinBeforeGate ==
    /\ [](tick.pc \in {"gate", "send", "pace"} =>
            \A i \in 1..max_rois_default : tick_ocr.status[i] # "running")
    /\ [][tick'.n # tick.n =>
            /\ {"ocr", "gate", "send"} \subseteq tick.done
            /\ tick'.n = tick.n + 1
            /\ tick'.pc = "capture"]_tick_vars

\* The second tick has reached its gate after three OCR calls, one of them
\* timed out.
C16_Witness ==
    /\ tick.n = 2 /\ tick.pc = "gate" /\ tick.rois = 3
    /\ Len(tick_ocr.order) = 3
    /\ \E i \in 1..3 : tick_ocr.status[i] = "timed_out"

(***************************************************************************)
(* C17  In each backend's capture_loop a failed or timed-out frame         *)
(* acquisition never ends the loop: an iteration either yields one frame   *)
(* or yields nothing and returns to the top of the loop, from where the    *)
(* next capture is attempted; the generator ends only when its consumer    *)
(* closes it.                                                              *)
(***************************************************************************)
C17_LoopSurvivesFailure ==
    [][/\ cap.pc = "loop" => cap'.pc \in {"loop", "yielded"}
       /\ cap'.iter # cap.iter =>
            /\ cap.pc = "loop" /\ cap'.iter = cap.iter + 1
            /\ \/ /\ cap'.prev = "fail" /\ cap'.pc = "loop"
                  /\ cap'.yielded = cap.yielded
                  /\ cap'.stats_ok = cap.stats_ok
               \/ /\ cap'.prev = "ok" /\ cap'.pc = "yielded"
                  /\ cap'.yielded = cap.yielded + 1
                  /\ cap'.stats_ok = cap.stats_ok + 1
       /\ (cap'.pc = "raised" /\ cap.pc # "raised") => cap.pc = "start"
       /\ (cap'.pc = "closed" /\ cap.pc # "closed") =>
            cap.pc \in {"start", "yielded"}]_cap

\* SCKCapture has yielded a frame in the iteration after a timed-out one.
C17_Witness ==
    /\ cap.backend = "SCKCapture" /\ cap.pc = "yielded"
    /\ cap.stats_fail > 0 /\ cap.iter >= 2
    /\ cap.out = 1

(***************************************************************************)
(* C18  An OCR failure becomes an empty-text result and is never raised to *)
(* the caller: LocalOCR.extract returns OCRResult("", 0, 0) when it is     *)
(* disabled, when pytesseract is unavailable and when the engine raises;   *)
(* OCREngine.extract returns "" when it is disabled, on a timeout and on   *)
(* any exception.                                                          *)
(***************************************************************************)
C18_OcrFailureIsEmpty ==
    ocr_call.pc # "ready" =>
        /\ ocr_call.pc = "returned"
        /\ (/\ ocr_call.self.engine = "LocalOCR"
            /\ \/ ~ocr_call.self.enabled \/ ~ocr_call.self.pytesseract
               \/ ocr_call.call.kind = "raise")
           => ocr_call.ret = LocalOCRResult("", 0, 0)
        /\ (/\ ocr_call.self.engine = "OCREngine"
            /\ \/ ~ocr_call.self.enabled
               \/ ocr_call.call.kind \in {"timeout", "error"})
           => ocr_call.ret = ""

\* An enabled LocalOCR with pytesseract present whose engine raised.
C18_Witness ==
    /\ ocr_call.pc = "returned" /\ ocr_call.self.engine = "LocalOCR"
    /\ ocr_call.self.enabled /\ ocr_call.self.pytesseract
    /\ ocr_call.call.kind = "raise"
    /\ ocr_call.ret.text = ""

\* The samples of all reports so far, in order, then the open window.
RECURSIVE Flatten(_)
Flatten(reports) ==
    IF reports = <<>> THEN <<>> ELSE Head(reports) \o Flatten(Tail(reports))

(***************************************************************************)
(* C19  send makes exactly one delivery attempt per call and never         *)
(* retries: it returns true on a 2xx response and false, without raising,  *)
(* on a transport failure or a non-2xx response; each call records exactly *)
(* one latency sample.                                                     *)
(***************************************************************************)
C19_SingleAttempt ==
    /\ sender.attempts = sender.calls
    /\ ~sender.raised
    /\ sender.calls > 0 => (sender.ret <=> sender.outcome = "2xx")
    /\ Len(Flatten(sender.reports)) + Len(sender.self.latencies)
           = sender.calls

\* A failed send after a successful one: two attempts in two calls.
C19_Witness ==
    /\ sender.calls = 2 /\ sender.attempts = 2
    /\ sender.outcome = "transport_failure" /\ ~sender.ret
    /\ Len(sender.self.latencies) = 2

(***************************************************************************)
(* C20  A send reports latency stats if and only if at least               *)
(* stats_interval seconds have passed since the last report; the report    *)
(* covers exactly the samples collected since the previous report and      *)
(* resets the window and the last-report time, so no sample is counted in  *)
(* two reports.                                                            *)
(***************************************************************************)
C20_StatsInterval ==
    /\ [][sender'.calls # sender.calls =>
            LET due == sender'.now - sender.self.last_stats_ts
                           >= sender.self.stats_interval
                window == Append(sender.self.latencies, sender'.calls)
            IN  /\ sender'.reported <=> due
                /\ due =>
                     /\ sender'.reports = Append(sender.reports, window)
                     /\ sender'.self.latencies = <<>>
                     /\ sender'.self.last_stats_ts = sender'.now
                /\ ~due =>
                     /\ sender'.reports = sender.reports
                     /\ sender'.self.latencies = window
                     /\ sender'.self.last_stats_ts
                            = sender.self.last_stats_ts]_sender
    /\ [](Flatten(sender.reports) \o sender.self.latencies
              = [i \in 1..sender.calls |-> i])

\* A report made exactly stats_interval seconds after the last one, over a
\* window of more than one sample, and a second report after it.
C20_Witness ==
    /\ sender.reported /\ Len(sender.reports) = 2
    /\ Len(sender.reports[1]) = 2
    /\ sender.now = 120

(***************************************************************************)
(* C21  compare returns None exactly on its first invocation and on an     *)
(* invocation whose frame dimensions differ from those of the previous     *)
(* call's frame; in every case the current frame becomes the baseline, so  *)
(* the next call with a frame of the same size returns a ChangeResult.     *)
(***************************************************************************)
C21_NoneIffNoBaseline ==
    det.calls > 0 =>
        /\ det.ret = None <=>
              (det.calls = 1 \/ det.before.size # det.call.size)
        /\ det.self.prev = det.call

\* The third call returned a ChangeResult after the second, with a frame of
\* another size than the first, had returned None.
C21_Witness ==
    /\ det.calls = 3 /\ det.ret # None /\ det.before_ret = None
    /\ det.before.size = det.call.size

(***************************************************************************)
(* C22  create_capture always returns a backend, in a fixed order of       *)
(* preference: SCKCapture iff it is available and its eager setup          *)
(* succeeds, otherwise ScreenKitCapture iff that is available, otherwise   *)
(* ScreenCapture; a failed SCKCapture setup is caught and falls through.   *)
(***************************************************************************)
C22_PreferenceOrder ==
    cap.pc # "create" =>
        LET sck == cap.env.sck_available /\ cap.env.setup = "ok"
        IN  /\ cap.pc # "create_raised"
            /\ cap.backend \in Backends
            /\ cap.backend = "SCKCapture" <=> sck
            /\ cap.backend = "ScreenKitCapture" <=>
                   (~sck /\ cap.env.ipc_available)
            /\ cap.backend = "ScreenCapture" <=>
                   (~sck /\ ~cap.env.ipc_available)

\* SCKCapture was available, its setup failed, and the IPC backend was
\* returned and has yielded a frame.
C22_Witness ==
    /\ cap.pc = "yielded" /\ cap.backend = "ScreenKitCapture"
    /\ cap.env.sck_available /\ cap.env.setup = "raise"

(***************************************************************************)
(* C23  ScreenKitCapture.capture_frame never returns the same frame twice  *)
(* in a row: a frame whose timestamp equals that of the last frame         *)
(* returned is answered with None, two frames returned one after the other *)
(* have different timestamps, and _last_frame_ts changes only when a frame *)
(* is returned, to that frame's timestamp.                                 *)
(***************************************************************************)
C23_NoDuplicateFrame ==
    [][cap.backend = "ScreenKitCapture" =>
          LET returned == cap'.yielded = cap.yielded + 1
          IN  /\ returned =>
                   /\ cap'.out # cap.last_frame_ts
                   /\ cap'.last_frame_ts = cap'.out
                   /\ cap.yielded > 0 => cap'.out # cap.out
              /\ ~returned => cap'.last_frame_ts = cap.last_frame_ts]_cap

\* Two frames returned and, between or before them, a call answered with
\* None without an error.
C23_Witness ==
    /\ cap.backend = "ScreenKitCapture" /\ cap.pc = "yielded"
    /\ cap.yielded = 2 /\ cap.iter = 3 /\ cap.stats_fail = 0
    /\ cap.last_frame_ts = cap.out

(***************************************************************************)
(* C24  Events are emitted in tick order: with a non-decreasing clock,     *)
(* last_send_ts never decreases and is always the ts of the most recently  *)
(* emitted event (0 before the first), so the ts of emitted events are     *)
(* non-decreasing in the order of emission.                                *)
(***************************************************************************)
C24_TickOrder ==
    /\ [](gate.last_send_ts =
              IF LatestEvent = None THEN 0 ELSE LatestEvent.ts)
    /\ [][/\ gate'.last_send_ts >= gate.last_send_ts
          /\ (ret' # None /\ LatestEvent # None) =>
                 ret'.ts >= LatestEvent.ts]_vars

\* A context event emitted after an earlier event of another type.
C24_Witness ==
    /\ ret # None /\ prev_event # None
    /\ ret.type = "context" /\ prev_event.type # "context"
    /\ ret.ts > prev_event.ts
    /\ gate.last_send_ts = ret.ts

(***************************************************************************)
(* C25  A duplicate sufficient text is dropped outright: when the text is  *)
(* at least min_ocr_chars long and its fingerprint equals last_ocr_hash,   *)
(* classify returns no event, also when the similarity is below            *)
(* major_change_threshold, and the gate is left as it was (last_send_ts is *)
(* not refreshed).                                                         *)
(***************************************************************************)
C25_DuplicateDropped ==
    [][(/\ ContentCall(call')
        /\ Len(call'.ocr.text) >= gate.min_ocr_chars
        /\ md5_hexdigest(call'.ocr.text) = gate.last_ocr_hash)
       => (ret' = None /\ gate' = gate)]_vars

\* The text sent last came again, the cooldown over, with a major visual
\* change, and nothing was returned.
C25_Witness ==
    /\ ContentCall(call) /\ ret = None
    /\ Len(call.ocr.text) >= gate.min_ocr_chars
    /\ md5_hexdigest(call.ocr.text) = gate.last_ocr_hash
    /\ call.change.ssim_score < gate.major_change_threshold
    /\ clock - gate.last_send_ts >= gate.cooldown_ms

\* The smallest box holding every box of a non-empty set.
HullOf(S) ==
    <<SetMin({b[1] : b \in S}), SetMin({b[2] : b \in S}),
      SetMax({b[3] : b \in S}), SetMax({b[4] : b \in S})>>

\* Box a holds box b.
Contains(a, b) ==
    a[1] <= b[1] /\ a[2] <= b[2] /\ a[3] >= b[3] /\ a[4] >= b[4]

\* The merged boxes among the first max_rois whose crop is large enough.
KeptAndLargeEnough ==
    {i \in 1..Len(roi_ret.merged) :
        /\ i <= roi_self.max_rois
        /\ LET c == PadClamp(roi_self, roi_frame, roi_ret.merged[i])
           IN  c[3] - c[1] >= roi_self.min_size[1]
               /\ c[4] - c[2] >= roi_self.min_size[2]}

(***************************************************************************)
(* C26  The max_rois cap is applied to the merged boxes before the         *)
(* min_size filter: the ROIs returned are exactly the crops, large enough, *)
(* of the first max_rois merged boxes; a box beyond the cap never takes    *)
(* the place of a discarded one.                                           *)
(***************************************************************************)
C26_CapBeforeFilter ==
    roi_ret # None =>
        /\ Len(roi_ret.rois) = Cardinality(KeptAndLargeEnough)
        /\ \A k \in DOMAIN roi_ret.rois :
               \E i \in KeptAndLargeEnough :
                   roi_ret.rois[k].image =
                       PadClamp(roi_self, roi_frame, roi_ret.merged[i])

\* Fewer than max_rois ROIs were returned although a merged box beyond the
\* cap has a crop that is large enough.
C26_Witness ==
    /\ roi_ret # None
    /\ Len(roi_ret.rois) < roi_self.max_rois
    /\ \E i \in DOMAIN roi_ret.merged :
           /\ i > roi_self.max_rois
           /\ ~TooSmall(roi_self,
                        PadClamp(roi_self, roi_frame, roi_ret.merged[i]))

\* The boxes of the contours, sorted by left edge as _merge_boxes sorts them.
SortedBoxes ==
    StableSort(RoiBoxes, [i \in DOMAIN RoiBoxes |-> RoiBoxes[i][1]])

\* With breaks after the positions in B, the box accumulated up to position
\* i: the hull of the sorted boxes from the start of i's run to i.
Accumulated(B, i) ==
    LET start == SetMax({1} \cup {b + 1 : b \in {c \in B : c < i}})
    IN  HullOf({SortedBoxes[k] : k \in start..i})

(***************************************************************************)
(* C27  Box merging is a single sweep over the boxes sorted by left edge:  *)
(* each box is merged into the most recently accumulated box iff it passes *)
(* the merge test against that box alone, and starts a new box otherwise,  *)
(* so the output boxes are the hulls of consecutive runs of the sorted     *)
(* input.  (The result need not be closed under the merge condition.)      *)
(***************************************************************************)
C27_SingleSweep ==
    (roi_ret # None /\ roi_contours # <<>>) =>
        LET n == Len(SortedBoxes)
        IN  \E B \in SUBSET (1..(n - 1)) :
                /\ \A i \in 2..n :
                       (i - 1) \in B <=>
                           ~MergesInto(roi_self, Accumulated(B, i - 1),
                                       SortedBoxes[i])
                /\ Len(roi_ret.merged) = Cardinality(B) + 1
                /\ {roi_ret.merged[j] : j \in DOMAIN roi_ret.merged}
                       = {Accumulated(B, e) : e \in B \cup {n}}

\* Two of the boxes returned satisfy the merge condition themselves.
C27_Witness ==
    /\ roi_ret # None
    /\ \E i, j \in DOMAIN roi_ret.merged :
           /\ i # j
           /\ MergeCondition(roi_ret.merged[i], roi_ret.merged[j],
                             roi_self.padding)

(***************************************************************************)
(* C28  _merge_boxes loses no change region: for a non-empty input every   *)
(* input box lies within an output box, there are between 1 and as many    *)
(* output boxes as input boxes, and the output boxes are the hulls of the  *)
(* parts of a partition of the input boxes.                                *)
(***************************************************************************)
C28_NoRegionLost ==
    (roi_ret # None /\ roi_contours # <<>>) =>
        LET n == Len(RoiBoxes)
            m == roi_ret.merged
        IN  /\ Len(m) >= 1 /\ Len(m) <= n
            /\ \A i \in 1..n : \E j \in DOMAIN m : Contains(m[j], RoiBoxes[i])
            /\ \E f \in [1..n -> DOMAIN m] :
                   \A j \in DOMAIN m :
                       /\ \E i \in 1..n : f[i] = j
                       /\ m[j] = HullOf({RoiBoxes[i] : i \in {k \in 1..n :
                                                               f[k] = j}})

\* Three input boxes became two: one the hull of two of them, larger than
\* either.
C28_Witness ==
    /\ roi_ret # None
    /\ Len(roi_contours) = 3 /\ Len(roi_ret.merged) = 2
    /\ \E j \in DOMAIN roi_ret.merged :
           \A i \in 1..3 : roi_ret.merged[j] # RoiBoxes[i]

(***************************************************************************)
(* C29  detect_change reports changed = TRUE iff the current app name      *)
(* differs from the name recorded by the previous call and that name was   *)
(* non-empty; the first call never reports a change; the recorded name is  *)
(* overwritten by the current one on every call, failed detections         *)
(* included.                                                               *)
(***************************************************************************)
C29_ChangedIffKnownAndDifferent ==
    (app # None /\ app.calls > 0) =>
        LET n        == app.calls
            changed  == app.returned[n][1]
            name     == app.returned[n][2]
            previous == IF n = 1 THEN "" ELSE app.returned[n - 1][2]
        IN  /\ app.before.last_app = previous
            /\ name = (IF app.outcome.kind = "raise" THEN ""
                       ELSE strip_stdout(app.outcome.stdout))
            /\ changed <=> (name # previous /\ previous # "")
            /\ n = 1 => ~changed
            /\ app.self.last_app = name

\* A known app, then a failed detection reported as a change, then the same
\* app again, not reported.
C29_Witness ==
    /\ app # None /\ app.calls >= 3
    /\ LET n == app.calls
       IN  /\ app.returned[n - 2][2] = "Safari"
           /\ app.returned[n - 1] = <<TRUE, "">>
           /\ app.before.last_app = ""
           /\ app.outcome.kind = "stdout"
           /\ app.returned[n] = <<FALSE, "Safari">>

\* In SCKCapture the queue holds at most 3 frames, oldest first, and a
\* running stream can always deliver its next sample buffer.
C30_QueueBounded ==
    cap.backend = "SCKCapture" =>
        /\ Len(cap.queue) <= 3
        /\ \A i, j \in DOMAIN cap.queue : i < j => cap.queue[i] < cap.queue[j]
        /\ (cap.stream /\ cap.setup_done /\ cap.produced < MaxFrames)
               => ENABLED SCKCallback

\* A delivery by the stream leaves the consumer where it was and a full
\* queue as it was, and otherwise at most appends the new frame at the tail;
\* every other step leaves the queue alone or takes its oldest frame.
C30_QueueStep ==
    cap.backend = "SCKCapture" =>
        IF cap'.produced # cap.produced
        THEN /\ cap'.pc = cap.pc /\ cap'.iter = cap.iter
             /\ cap'.yielded = cap.yielded
             /\ IF Len(cap.queue) = 3 THEN cap'.queue = cap.queue
                ELSE \/ cap'.queue = cap.queue
                     \/ cap'.queue = Append(cap.queue, cap'.produced)
        ELSE \/ cap'.queue = cap.queue
             \/ cap.queue # <<>> /\ cap'.queue = Tail(cap.queue)

(***************************************************************************)
(* C30  In SCKCapture the frame queue shared by the stream callback and    *)
(* the consumer never holds more than 3 frames under any interleaving:     *)
(* when it is full the incoming frame is discarded, the queued frames are  *)
(* kept in arrival order, and the callback never blocks or raises.         *)
(***************************************************************************)
C30_FullQueueDropsIncoming == []C30_QueueBounded /\ [][C30_QueueStep]_all_vars

\* The queue is full with the first three frames and a fourth delivery has
\* come and gone.
C30_Witness ==
    /\ cap.backend = "SCKCapture"
    /\ cap.queue = <<1, 2, 3>> /\ cap.produced = 4

\* A call that reaches _setup while _setup_done is true starts nothing and
\* leaves the capture as it was.
C31_SetupOnce ==
    (cap'.op \in {"setup", "capture_frame", "next"} /\ cap.self.setup_done) =>
        /\ cap'.starts = cap.starts /\ cap'.setups = cap.setups
        /\ cap'.self.stream = cap.self.stream
        /\ cap'.self.setup_done

\* stop leaves a capture that was never set up as it was, and a second stop
\* changes nothing.
C31_StopNoOpAndIdempotent ==
    cap'.op = "stop" =>
        /\ (~cap.self.stream /\ ~cap.self.setup_done)
               => cap'.self = cap.self
        /\ cap.op = "stop" => cap'.self = cap.self

\* After stop, _stream is None and _setup_done is false.
C31_AfterStopReset ==
    cap'.op = "stop" => (~cap'.self.stream /\ ~cap'.self.setup_done)

\* After a stop, the next capture_frame, or the first next() of a
\* capture_loop, performs setup again.
C31_SetupAgain ==
    (/\ cap.op = "stop"
     /\ \/ cap'.op = "capture_frame"
        \/ cap'.op = "next" /\ cap.gen = "created")
        => cap'.setups = cap.setups + 1

\* Closing the capture_loop generator runs stop.
C31_CloseRunsStop ==
    cap'.op = "close" => cap'.stop_calls = cap.stop_calls + 1

(***************************************************************************)
(* C31  SCKCapture lifecycle: _setup starts the stream at most once while  *)
(* _setup_done is true; stop is a no-op when the stream was never set up   *)
(* and is idempotent; after stop, _stream is None and _setup_done is       *)
(* false, so the next capture_frame or capture_loop performs setup again;  *)
(* closing the capture_loop generator always runs stop.                    *)
(***************************************************************************)
C31_Lifecycle ==
    [][/\ C31_SetupOnce /\ C31_StopNoOpAndIdempotent /\ C31_AfterStopReset
       /\ C31_SetupAgain /\ C31_CloseRunsStop]_all_vars

====
